---------------------------- MODULE Spec2Model ----------------------------
(***************************************************************************)
(* Model of src/main.py (CoordinateTracker): the text-to-triple extractor, *)
(* the image enhancer with its throttled debug write, and the acquisition  *)
(* loop of start().                                                        *)
(*                                                                         *)
(* Text is a sequence of characters, each character a one-character string *)
(* (a character outside ASCII is written by its code point, "U+FF1A").     *)
(* Time is counted in ticks of 0.1 s, so 0.1 s = 1, 0.5 s = 5, 5 s = 50.   *)
(* A float is the pair <<n, d>> standing for n/d with d the least power of *)
(* ten that makes n an integer, so equal floats are equal pairs.           *)
(***************************************************************************)
EXTENDS Integers, Sequences, FiniteSets, TLC

VARIABLES
    pc,               \* position of the thread in start() / the extractor harness
    clock,            \* time.time() in ticks
    camera_index,     \* self.camera_index
    running,          \* self.running
    last_debug_time,  \* self.last_debug_time
    cap,              \* the cv2.VideoCapture handle of start()
    start_time,       \* local start_time of the current cycle
    \* The locals of one cycle hold their initial value until the cycle
    \* assigns them: the code never reads the value of an earlier cycle.
    roi,              \* the ROI crop, as <<rows, columns>>
    processed,        \* result of preprocess_image
    text,             \* recognized text
    coords,           \* result of extract_coordinates
    elapsed,          \* local elapsed
    slept,            \* argument of time.sleep
    output,           \* kind of the line printed
    imwrite_ret,      \* return value of cv2.imwrite, "none" when not called
    imwrite_calls,    \* history: clock of every cv2.imwrite call
    busy,             \* history: time spent in blocking calls this cycle
    after_sleep,      \* history: the last step of the loop was the sleep
    loop_entered,     \* history: the try block of start() was entered
    exit_cause,       \* history: why the loop ended
    use_after_release \* history: grab/retrieve was called on a released handle

vars == << pc, clock, camera_index, running, last_debug_time, cap, start_time,
           roi, processed, text, coords, elapsed, slept, output, imwrite_ret,
           imwrite_calls, busy, after_sleep, loop_entered, exit_cause,
           use_after_release >>

---------------------------------------------------------------------------
(* Bounds of the model *)

\* longest generated text, in pieces of Pieces
MaxPieces == 3
\* time.time() when start() is called, in ticks (an epoch clock: far above 5 s)
Epoch == 1000
\* no new cycle starts more than Horizon ticks after Epoch
Horizon == 58
\* longest time the five grabs and the retrieve take, in ticks
MaxDeviceDelay == 1
\* longest time one OCR call takes, in ticks
MaxOcrDelay == 6
\* largest camera index find_camera_index is taken to return (of 0..4)
MaxCameraIndex == 1

(* Program constants, in ticks of 0.1 s *)

\* time.sleep(max(0.1, ...))
FLOOR == 1
\* max(0.1, 0.5 - elapsed)
TARGET == 5
\* current_time - self.last_debug_time > 5
DEBUG_INTERVAL == 50
\* ROI_TOP, ROI_BOTTOM = 10, 160 and ROI_LEFT, ROI_RIGHT = 10, 600
ROI_TOP == 10
ROI_BOTTOM == 160
ROI_LEFT == 10
ROI_RIGHT == 600
\* cap.set(cv2.CAP_PROP_FRAME_WIDTH, 1280), cap.set(cv2.CAP_PROP_FRAME_HEIGHT, 720)
FRAME_WIDTH == 1280
FRAME_HEIGHT == 720

---------------------------------------------------------------------------
(* Characters and strings *)

Digits == {"0", "1", "2", "3", "4", "5", "6", "7", "8", "9"}

DigitVal(c) ==
    CASE c = "0" -> 0 [] c = "1" -> 1 [] c = "2" -> 2 [] c = "3" -> 3
      [] c = "4" -> 4 [] c = "5" -> 5 [] c = "6" -> 6 [] c = "7" -> 7
      [] c = "8" -> 8 [] c = "9" -> 9

Range(s) == {s[i] : i \in 1..Len(s)}

\* str.replace(old, new) for a one-character old; new is a string (maybe empty)
RECURSIVE str_replace(_, _, _)
str_replace(s, old, new) ==
    IF s = <<>> THEN <<>>
    ELSE (IF Head(s) = old THEN new ELSE <<Head(s)>>)
             \o str_replace(Tail(s), old, new)

\* str.split(sep) for a one-character sep: the list of pieces, never empty
RECURSIVE str_split(_, _)
str_split(s, sep) ==
    IF s = <<>> THEN << <<>> >>
    ELSE LET rest == str_split(Tail(s), sep)
         IN  IF Head(s) = sep
             THEN << <<>> >> \o rest
             ELSE << <<Head(s)>> \o Head(rest) >> \o Tail(rest)

\* line 45 without .replace(' ', '')
clean_text_nospace(t) ==
    str_replace(str_replace(str_replace(str_replace(
        str_replace(t, "U+FF1A", <<":">>),
        ";", <<":">>), "|", <<>>), "I", <<"1">>), "O", <<"0">>)

\* line 45 without .replace('O', '0')
clean_text_noO(t) ==
    str_replace(str_replace(str_replace(str_replace(
        str_replace(t, " ", <<>>), "U+FF1A", <<":">>),
        ";", <<":">>), "|", <<>>), "I", <<"1">>)

\* line 45: the chain of replace calls, applied left to right
clean_text(t) ==
    str_replace(str_replace(str_replace(str_replace(str_replace(
        str_replace(t, " ", <<>>), "U+FF1A", <<":">>),
        ";", <<":">>), "|", <<>>), "I", <<"1">>), "O", <<"0">>)

\* lines 48-49, taking index 1 of the split instead of index -1
colon_suffix_index1(clean) ==
    IF ":" \in Range(clean) THEN str_split(clean, ":")[2] ELSE clean

\* lines 48-49: if ':' in clean_text: clean_text = clean_text.split(':')[-1]
colon_suffix(clean) ==
    IF ":" \in Range(clean)
    THEN LET parts == str_split(clean, ":") IN parts[Len(parts)]
    ELSE clean

\* the last index k >= j-1 with s[j..k] all digits (\d*, greedy)
RECURSIVE digits_end(_, _)
digits_end(s, j) ==
    IF j <= Len(s) /\ s[j] \in Digits THEN digits_end(s, j + 1) ELSE j - 1

\* re.match of [-+]?\d+\.?\d* at index i: the index of the match's last
\* character, 0 when there is no match at i
match_end(s, i) ==
    LET j  == IF s[i] \in {"-", "+"} THEN i + 1 ELSE i
        k  == digits_end(s, j)
        k2 == IF k + 1 <= Len(s) /\ s[k + 1] = "." THEN k + 1 ELSE k
    IN  IF k < j THEN 0 ELSE digits_end(s, k2 + 1)

\* re.findall from index i on: leftmost, non-overlapping matches
RECURSIVE findall_from(_, _)
findall_from(s, i) ==
    IF i > Len(s) THEN <<>>
    ELSE LET e == match_end(s, i)
         IN  IF e = 0 THEN findall_from(s, i + 1)
             ELSE <<SubSeq(s, i, e)>> \o findall_from(s, e + 1)

\* line 52: re.findall(r"[-+]?\d+\.?\d*", clean_text)
re_findall(s) == findall_from(s, 1)

RECURSIVE digits_value(_)
digits_value(ds) ==
    IF ds = <<>> THEN 0
    ELSE 10 * digits_value(SubSeq(ds, 1, Len(ds) - 1)) + DigitVal(ds[Len(ds)])

RECURSIVE pow10(_)
pow10(n) == IF n = 0 THEN 1 ELSE 10 * pow10(n - 1)

RECURSIVE reduce10(_, _)
reduce10(n, d) ==
    IF d > 1 /\ n % 10 = 0 THEN reduce10(n \div 10, d \div 10) ELSE <<n, d>>

\* whether float(tok) returns instead of raising ValueError
float_ok(tok) ==
    LET body == IF tok # <<>> /\ tok[1] \in {"-", "+"} THEN Tail(tok) ELSE tok
        nd   == Cardinality({i \in 1..Len(body) : body[i] = "."})
    IN  /\ \A i \in 1..Len(body) : body[i] \in Digits \cup {"."}
        /\ nd <= 1
        /\ \E i \in 1..Len(body) : body[i] \in Digits

\* float(tok) for a decimal literal
float(tok) ==
    LET neg  == tok[1] = "-"
        body == IF tok[1] \in {"-", "+"} THEN Tail(tok) ELSE tok
        ip   == SubSeq(body, 1, digits_end(body, 1))
        fp   == SubSeq(body, Len(ip) + 2, Len(body))
        mag  == reduce10(digits_value(ip \o fp), pow10(Len(fp)))
    IN  <<IF neg THEN 0 - mag[1] ELSE mag[1], mag[2]>>

\* the no-match result of extract_coordinates
None == <<>>

\* lines 54-61, with an off-by-one threshold
first_three_strict(numbers) ==
    IF Len(numbers) > 3
    THEN <<float(numbers[1]), float(numbers[2]), float(numbers[3])>>
    ELSE None

\* lines 54-61: the first three tokens as floats, None when fewer than 3
first_three(numbers) ==
    IF Len(numbers) >= 3
    THEN IF float_ok(numbers[1]) /\ float_ok(numbers[2]) /\ float_ok(numbers[3])
         THEN <<float(numbers[1]), float(numbers[2]), float(numbers[3])>>
         ELSE None
    ELSE None

\* lines 39-61
extract_coordinates(t) == first_three(re_findall(colon_suffix(clean_text(t))))


---------------------------------------------------------------------------
(* The image enhancer and the acquisition loop *)

Max(a, b) == IF a >= b THEN a ELSE b
Min(a, b) == IF a <= b THEN a ELSE b

Whitespace == {" ", "\n", "\t"}

\* str.strip(): leading and trailing whitespace removed
RECURSIVE str_lstrip(_)
str_lstrip(s) ==
    IF s # <<>> /\ Head(s) \in Whitespace THEN str_lstrip(Tail(s)) ELSE s

RECURSIVE str_rstrip(_)
str_rstrip(s) ==
    IF s # <<>> /\ s[Len(s)] \in Whitespace
    THEN str_rstrip(SubSeq(s, 1, Len(s) - 1)) ELSE s

str_strip(s) == str_rstrip(str_lstrip(s))

\* line 145: raw = text.strip().replace('\n', ' ')
raw_output(t) == str_replace(str_strip(t), "\n", <<" ">>)

\* shapes <<height, width>> of the frames the device delivers: the requested
\* resolution, or a frame too short to reach the ROI
FrameShapes == {<<FRAME_HEIGHT, FRAME_WIDTH>>, <<ROI_TOP - 2, FRAME_WIDTH>>}

\* line 130: frame[ROI_TOP:ROI_BOTTOM, ROI_LEFT:ROI_RIGHT], as <<rows, columns>>
crop(shape) ==
    << Max(0, Min(shape[1], ROI_BOTTOM) - Min(shape[1], ROI_TOP)),
       Max(0, Min(shape[2], ROI_RIGHT) - Min(shape[2], ROI_LEFT)) >>

\* roi.size
size(r) == r[1] * r[2]

\* texts the OCR engine returns in the loop: empty, no number, two tokens
\* over two lines, a full readout
SampleTexts ==
    { <<>>,
      <<"n", "o", "\n">>,
      <<"1", ",", " ", "2", "\n">>,
      <<"U+5EA7", "U+6A19", ":", " ", "1", "2", ".", "5", ",", " ", "-", "3",
        ",", " ", "1", "O", "O", "\n">> }

\* line 91 with >= for >
debug_due_inclusive(now, last) == now - last >= DEBUG_INTERVAL

\* line 91: current_time - self.last_debug_time > 5
debug_due(now, last) == now - last > DEBUG_INTERVAL

\* line 151 without the floor
sleep_duration_nofloor(e) == TARGET - e

\* line 151 with a floor of zero
sleep_duration_zero(e) == Max(0, TARGET - e)

\* line 151: max(0.1, 0.5 - elapsed)
sleep_duration(e) == Max(FLOOR, TARGET - e)

Init ==
    /\ pc = "idle"
    /\ clock = Epoch
    /\ camera_index \in 0..MaxCameraIndex
    /\ running = TRUE
    /\ last_debug_time = 0
    /\ cap = "none"
    /\ start_time = 0
    /\ roi = <<0, 0>>
    /\ processed = "None"
    /\ text = <<>>
    /\ coords = None
    /\ elapsed = 0
    /\ slept = 0
    /\ output = "none"
    /\ imwrite_ret = "none"
    /\ imwrite_calls = <<>>
    /\ busy = 0
    /\ after_sleep = FALSE
    /\ loop_entered = FALSE
    /\ exit_cause = "none"
    /\ use_after_release = FALSE

\* lines 98-111: the Tesseract check and the opening of the device
Start ==
    /\ pc = "idle"
    /\ \/ /\ pc' = "returned"
          /\ exit_cause' = "no_tesseract"
          /\ cap' = cap
       \/ /\ pc' = "returned"
          /\ exit_cause' = "no_device"
          /\ cap' = "unopened"
       \/ /\ pc' = "banner"
          /\ exit_cause' = exit_cause
          /\ cap' = "open"
    /\ UNCHANGED << clock, camera_index, running, last_debug_time, start_time,
                    roi, processed, text, coords, elapsed, slept, output,
                    imwrite_ret, imwrite_calls, busy, after_sleep,
                    loop_entered, use_after_release >>

\* lines 113-117: the three prints, then the try block is entered
Banner ==
    /\ pc = "banner"
    /\ pc' = "loop_head"
    /\ loop_entered' = TRUE
    /\ UNCHANGED << clock, camera_index, running, last_debug_time, cap,
                    start_time, roi, processed, text, coords, elapsed, slept,
                    output, imwrite_ret, imwrite_calls, busy, after_sleep,
                    exit_cause, use_after_release >>

\* lines 103-115: a KeyboardInterrupt before the try block propagates out of
\* start(); neither the except nor the finally clause covers these lines
BannerInterrupt ==
    /\ pc = "banner"
    /\ pc' = "returned"
    /\ exit_cause' = "interrupt_before_loop"
    /\ UNCHANGED << clock, camera_index, running, last_debug_time, cap,
                    start_time, roi, processed, text, coords, elapsed, slept,
                    output, imwrite_ret, imwrite_calls, busy, after_sleep,
                    loop_entered, use_after_release >>

\* lines 118-119: while self.running: start_time = time.time()
\* (nothing in the program sets self.running to False); the locals of the
\* cycle that ended are dead from here on
LoopHead ==
    /\ pc = "loop_head"
    /\ running
    /\ clock - Epoch <= Horizon
    /\ start_time' = clock
    /\ pc' = "grab"
    /\ roi' = <<0, 0>>
    /\ processed' = "None"
    /\ text' = <<>>
    /\ coords' = None
    /\ elapsed' = 0
    /\ slept' = 0
    /\ output' = "none"
    /\ imwrite_ret' = "none"
    /\ busy' = 0
    /\ after_sleep' = FALSE
    /\ UNCHANGED << clock, camera_index, running, last_debug_time, cap,
                    imwrite_calls, loop_entered, exit_cause,
                    use_after_release >>

\* lines 122-130: five grabs, retrieve, break when no frame, else the crop
GrabRetrieve ==
    /\ pc = "grab"
    /\ \E d \in 0..MaxDeviceDelay :
          /\ clock' = clock + d
          /\ busy' = busy + d
    /\ use_after_release' = (use_after_release \/ cap = "released")
    /\ \/ /\ pc' = "finally"
          /\ exit_cause' = "device_loss"
          /\ roi' = roi
       \/ \E shape \in FrameShapes :
             /\ roi' = crop(shape)
             /\ pc' = "preprocess"
             /\ exit_cause' = exit_cause
    /\ UNCHANGED << camera_index, running, last_debug_time, cap, start_time,
                    processed, text, coords, elapsed, slept, output,
                    imwrite_ret, imwrite_calls, after_sleep, loop_entered >>

\* Preprocess with an empty crop ending the loop instead of the cycle
Preprocess_break_on_empty ==
    /\ pc = "preprocess"
    /\ IF size(roi) = 0
       THEN /\ processed' = "None"
            /\ pc' = "finally"
            /\ exit_cause' = "empty_roi"
            /\ UNCHANGED << last_debug_time, imwrite_calls, imwrite_ret >>
       ELSE /\ processed' = "image"
            /\ pc' = "ocr"
            /\ exit_cause' = exit_cause
            /\ IF debug_due(clock, last_debug_time)
               THEN /\ imwrite_calls' = Append(imwrite_calls, clock)
                    /\ imwrite_ret' \in {"True", "False"}
                    /\ last_debug_time' = clock
               ELSE UNCHANGED << last_debug_time, imwrite_calls, imwrite_ret >>
    /\ UNCHANGED << clock, camera_index, running, cap, start_time, roi, text,
                    coords, elapsed, slept, output, busy, after_sleep,
                    loop_entered, use_after_release >>

\* Preprocess with the timestamp updated only when imwrite returns True
Preprocess_stamp_on_success ==
    /\ pc = "preprocess"
    /\ IF size(roi) = 0
       THEN /\ processed' = "None"
            /\ pc' = "sleep"
            /\ UNCHANGED << last_debug_time, imwrite_calls, imwrite_ret >>
       ELSE /\ processed' = "image"
            /\ pc' = "ocr"
            /\ IF debug_due(clock, last_debug_time)
               THEN /\ imwrite_calls' = Append(imwrite_calls, clock)
                    /\ imwrite_ret' \in {"True", "False"}
                    /\ last_debug_time' =
                          IF imwrite_ret' = "True" THEN clock
                          ELSE last_debug_time
               ELSE UNCHANGED << last_debug_time, imwrite_calls, imwrite_ret >>
    /\ UNCHANGED << clock, camera_index, running, cap, start_time, roi, text,
                    coords, elapsed, slept, output, busy, after_sleep,
                    loop_entered, exit_cause, use_after_release >>

\* lines 131 and 63-95: processed = self.preprocess_image(roi), with the
\* debug write of lines 90-93; cv2.imwrite reports a failed write by
\* returning False, which line 92 ignores
Preprocess ==
    /\ pc = "preprocess"
    /\ IF size(roi) = 0
       THEN /\ processed' = "None"
            /\ pc' = "sleep"
            /\ UNCHANGED << last_debug_time, imwrite_calls, imwrite_ret >>
       ELSE /\ processed' = "image"
            /\ pc' = "ocr"
            /\ IF debug_due(clock, last_debug_time)
               THEN /\ imwrite_calls' = Append(imwrite_calls, clock)
                    /\ imwrite_ret' \in {"True", "False"}
                    /\ last_debug_time' = clock
               ELSE UNCHANGED << last_debug_time, imwrite_calls, imwrite_ret >>
    /\ UNCHANGED << clock, camera_index, running, cap, start_time, roi, text,
                    coords, elapsed, slept, output, busy, after_sleep,
                    loop_entered, exit_cause, use_after_release >>

\* lines 133-147: the OCR call, extract_coordinates and the report
Ocr ==
    /\ pc = "ocr"
    /\ \E d \in 0..MaxOcrDelay :
          /\ clock' = clock + d
          /\ busy' = busy + d
    /\ \E t \in SampleTexts :
          /\ text' = t
          /\ coords' = extract_coordinates(t)
          /\ output' = IF extract_coordinates(t) # None THEN "SUCCESS"
                       ELSE IF raw_output(t) # <<>> THEN "Raw Output"
                       ELSE "none"
    /\ pc' = "sleep"
    /\ UNCHANGED << camera_index, running, last_debug_time, cap, start_time,
                    roi, processed, elapsed, slept, imwrite_ret,
                    imwrite_calls, after_sleep, loop_entered, exit_cause,
                    use_after_release >>

\* lines 150-151: elapsed = time.time() - start_time; time.sleep(max(...))
Sleep ==
    /\ pc = "sleep"
    /\ elapsed' = clock - start_time
    /\ slept' = sleep_duration(clock - start_time)
    /\ clock' = clock + sleep_duration(clock - start_time)
    /\ after_sleep' = TRUE
    /\ pc' = "loop_head"
    /\ UNCHANGED << camera_index, running, last_debug_time, cap, start_time,
                    roi, processed, text, coords, output, imwrite_ret,
                    imwrite_calls, busy, loop_entered, exit_cause,
                    use_after_release >>

\* the positions inside the try block of lines 117-151
InLoop == {"loop_head", "grab", "preprocess", "ocr", "sleep"}

\* Interrupt with the finally clause skipped
Interrupt_skips_finally ==
    /\ pc \in InLoop
    /\ pc' = "returned"
    /\ exit_cause' = "interrupt"
    /\ output' = "Stopping"
    /\ UNCHANGED << clock, camera_index, running, last_debug_time, cap,
                    start_time, roi, processed, text, coords, elapsed, slept,
                    imwrite_ret, imwrite_calls, busy, after_sleep,
                    loop_entered, use_after_release >>

\* lines 153-154: except KeyboardInterrupt, raised anywhere in the try block
Interrupt ==
    /\ pc \in InLoop
    /\ pc' = "finally"
    /\ exit_cause' = "interrupt"
    /\ output' = "Stopping"
    /\ UNCHANGED << clock, camera_index, running, last_debug_time, cap,
                    start_time, roi, processed, text, coords, elapsed, slept,
                    imwrite_ret, imwrite_calls, busy, after_sleep,
                    loop_entered, use_after_release >>

\* lines 155-157: finally: cap.release()
Finally ==
    /\ pc = "finally"
    /\ cap' = "released"
    /\ pc' = "returned"
    /\ UNCHANGED << clock, camera_index, running, last_debug_time, start_time,
                    roi, processed, text, coords, elapsed, slept, output,
                    imwrite_ret, imwrite_calls, busy, after_sleep,
                    loop_entered, exit_cause, use_after_release >>

Next ==
    \/ Start
    \/ Banner
    \/ BannerInterrupt
    \/ LoopHead
    \/ GrabRetrieve
    \/ Preprocess
    \/ Ocr
    \/ Sleep
    \/ Interrupt
    \/ Finally

Spec == Init /\ [][Next]_vars

---------------------------------------------------------------------------
(* extract_coordinates applied to one recognized text *)

\* building blocks of the generated texts
Pieces ==
    { <<"1">>, <<"-", "2">>, <<".", "5">>, <<"+">>, <<",">>,
      <<":">>, <<";">>, <<"U+FF1A">>, <<"|">>, <<"I">>, <<"O">>,
      <<" ">>, <<"\n">>, <<"3", ",", "4", ",", "5">>,
      <<"8", ":", "9", ";">> }

RECURSIVE Concat(_)
Concat(ps) == IF ps = <<>> THEN <<>> ELSE Head(ps) \o Concat(Tail(ps))

\* "12.5,-3,100"
ExCanonical ==
    <<"1", "2", ".", "5", ",", "-", "3", ",", "1", "0", "0">>
\* "座標: 12.5, -3.0, 100.0"
ExLabelled ==
    <<"U+5EA7", "U+6A19", ":", " ", "1", "2", ".", "5", ",", " ", "-", "3",
      ".", "0", ",", " ", "1", "0", "0", ".", "0">>
\* "12;O.5, -3, 1OO"
ExConfused ==
    <<"1", "2", ";", "O", ".", "5", ",", " ", "-", "3", ",", " ", "1", "O",
      "O">>
\* "no numbers here"
ExNoNumbers ==
    <<"n", "o", " ", "n", "u", "m", "b", "e", "r", "s", " ", "h", "e", "r",
      "e">>
\* "1, 2"
ExTwoTokens == <<"1", ",", " ", "2">>
\* "1,2,3,4"
ExFourTokens == <<"1", ",", "2", ",", "3", ",", "4">>
\* "7:8,9;X: 1\nY: 2\nZ:3 4 5,6": colons of every kind, line breaks, spaces
ExMultiLine ==
    <<"7", ":", "8", ",", "9", ";", "X", "U+FF1A", " ", "1", "\n", "Y", ":",
      " ", "2", "\n", "Z", ":", "3", " ", "4", " ", "5", ",", "6", "\n", "7",
      "|", "8", "\n">>

Examples ==
    { ExCanonical, ExLabelled, ExConfused, ExNoNumbers, ExTwoTokens,
      ExFourTokens, ExMultiLine }

\* the recognized texts extract_coordinates is applied to
Inputs ==
    Examples \cup
    UNION { {Concat(ps) : ps \in [1..n -> Pieces]} : n \in 0..MaxPieces }

InitExtract ==
    /\ pc = "x_input"
    /\ text \in Inputs
    /\ clock = Epoch
    /\ camera_index = 0
    /\ running = TRUE
    /\ last_debug_time = 0
    /\ cap = "none"
    /\ start_time = 0
    /\ roi = <<0, 0>>
    /\ processed = "None"
    /\ coords = None
    /\ elapsed = 0
    /\ slept = 0
    /\ output = "none"
    /\ imwrite_ret = "none"
    /\ imwrite_calls = <<>>
    /\ busy = 0
    /\ after_sleep = FALSE
    /\ loop_entered = FALSE
    /\ exit_cause = "none"
    /\ use_after_release = FALSE

\* line 138: coords = self.extract_coordinates(text)
Extract ==
    /\ pc = "x_input"
    /\ coords' = extract_coordinates(text)
    /\ pc' = "x_done"
    /\ UNCHANGED << clock, camera_index, running, last_debug_time, cap,
                    start_time, roi, processed, text, elapsed, slept, output,
                    imwrite_ret, imwrite_calls, busy, after_sleep,
                    loop_entered, exit_cause, use_after_release >>

NextExtract == Extract

ExtractSpec == InitExtract /\ [][NextExtract]_vars

---------------------------------------------------------------------------
(* The debug sink *)

WritesSpaced(calls) ==
    \A i, j \in 1..Len(calls) :
        i < j => calls[j] - calls[i] > DEBUG_INTERVAL

\* a step in which preprocess_image reaches the debug sink (line 90)
SinkInvoked == pc = "preprocess" /\ pc' = "ocr"

\* C1: any two debug writes are more than 5 time units apart; a sink
\* invocation writes exactly when no write was made before or more than 5
\* time units have passed since the last write, and no other step writes.
C1_DebugThrottle ==
    [][ /\ WritesSpaced(imwrite_calls')
        /\ SinkInvoked =>
             IF \/ imwrite_calls = <<>>
                \/ clock - imwrite_calls[Len(imwrite_calls)] > DEBUG_INTERVAL
             THEN imwrite_calls' = Append(imwrite_calls, clock)
             ELSE imwrite_calls' = imwrite_calls
        /\ ~SinkInvoked => imwrite_calls' = imwrite_calls ]_vars

\* a second write was made, and a later invocation within the interval
\* wrote nothing
C1_Witness ==
    /\ pc = "ocr"
    /\ Len(imwrite_calls) = 2
    /\ imwrite_ret = "none"
    /\ clock - imwrite_calls[2] <= DEBUG_INTERVAL

---------------------------------------------------------------------------
(* The loop of start() *)

C3_CadenceSleep ==
    pc = "loop_head" =>
        /\ start_time # 0 => after_sleep
        /\ after_sleep =>
             /\ elapsed = busy
             /\ slept = IF TARGET - elapsed >= FLOOR
                        THEN TARGET - elapsed ELSE FLOOR
             /\ slept >= FLOOR
             /\ slept >= 0
             /\ clock = start_time + elapsed + slept
             /\ elapsed <= TARGET - FLOOR => clock - start_time = TARGET

\* a cycle without an image has slept the whole target interval
C3_Witness ==
    /\ pc = "loop_head"
    /\ after_sleep
    /\ processed = "None"
    /\ elapsed = 0
    /\ slept = TARGET

\* C4 as stated: after a cycle longer than the target interval the next
\* cycle starts with no delay.
C4_NextCycleImmediately ==
    (pc = "loop_head" /\ after_sleep /\ elapsed > TARGET) =>
        clock = start_time + elapsed

\* C4 amended: after a cycle longer than the target interval the loop sleeps
\* exactly the floor, so the next cycle starts one floor after the
\* processing ended.
C4_SlowCycleSleepsFloor ==
    (pc = "loop_head" /\ after_sleep /\ elapsed > TARGET) =>
        /\ slept = FLOOR
        /\ clock = start_time + elapsed + FLOOR

C4_Witness ==
    /\ pc = "loop_head"
    /\ after_sleep
    /\ elapsed > TARGET
    /\ clock - Epoch <= Horizon

\* C5: in a cycle that obtained a frame, every step that is not an operator
\* interrupt leads on to the next step of the cycle and the sleep leads to
\* the loop head, whatever the crop, the imwrite result and the text were;
\* an empty crop leads to the sleep; the loop ends only by device loss or
\* interrupt.
C5_FailuresKeepLoopRunning ==
    [][ /\ (pc \in {"preprocess", "ocr", "sleep"} /\ exit_cause' # "interrupt")
             => /\ pc = "preprocess" =>
                     pc' = IF size(roi) = 0 THEN "sleep" ELSE "ocr"
                /\ pc = "ocr" => pc' = "sleep"
                /\ pc = "sleep" => pc' = "loop_head"
        /\ (pc \in InLoop /\ pc' \notin InLoop)
             => /\ pc' = "finally"
                /\ exit_cause' \in {"device_loss", "interrupt"}
                /\ exit_cause' = "device_loss" => pc = "grab" ]_vars

\* a cycle whose debug write failed and whose text held two tokens is back
\* at the loop head, with the next cycle enabled
C5_Witness ==
    /\ pc = "loop_head"
    /\ after_sleep
    /\ imwrite_ret = "False"
    /\ text = <<"1", ",", " ", "2", "\n">>
    /\ coords = None
    /\ output = "Raw Output"
    /\ ENABLED LoopHead

\* C10 as stated: a run of preprocess_image changes neither the Sampling
\* State nor the debug file.
C10_EnhancerNoSideEffect ==
    [][ pc = "preprocess" =>
          /\ last_debug_time' = last_debug_time
          /\ camera_index' = camera_index
          /\ imwrite_calls' = imwrite_calls ]_vars

\* C10 amended: preprocess_image never changes the device index; on an empty
\* input, or within 5 time units of last_debug_time, it leaves the timestamp
\* alone and writes nothing; otherwise it calls imwrite itself and sets the
\* timestamp to the current time, whatever imwrite returns; no other step of
\* the loop writes or changes the Sampling State.
C10_EnhancerWritesDebugImage ==
    [][ /\ camera_index' = camera_index
        /\ pc # "preprocess" =>
              /\ last_debug_time' = last_debug_time
              /\ imwrite_calls' = imwrite_calls
        /\ (pc = "preprocess" /\ pc' # "finally") =>
              IF size(roi) # 0 /\ clock - last_debug_time > DEBUG_INTERVAL
              THEN /\ last_debug_time' = clock
                   /\ imwrite_calls' = Append(imwrite_calls, clock)
                   /\ imwrite_ret' \in {"True", "False"}
              ELSE /\ last_debug_time' = last_debug_time
                   /\ imwrite_calls' = imwrite_calls
                   /\ imwrite_ret' = "none" ]_vars

\* preprocess_image has just made a debug write that failed
C10_Witness ==
    /\ pc = "ocr"
    /\ last_debug_time = clock
    /\ imwrite_ret = "False"
    /\ Len(imwrite_calls) = 2

---------------------------------------------------------------------------
(* extract_coordinates *)

\* the characters line 45 turns into the ASCII colon
ColonChars == {":", "U+FF1A", ";"}

SetMax(S) == CHOOSE m \in S : \A x \in S : x <= m

\* t without the characters of the set cs
Without(t, cs) == SelectSeq(t, LAMBDA c : c \notin cs)

\* the substitutions of line 45, character by character
SubstituteChar(c) ==
    IF c \in ColonChars THEN ":"
    ELSE IF c = "I" THEN "1"
    ELSE IF c = "O" THEN "0"
    ELSE c

Substituted(t) ==
    LET kept == Without(t, {" ", "|"})
    IN  [i \in 1..Len(kept) |-> SubstituteChar(kept[i])]

\* the result for a text that is scanned in full
ScanInFull(t) == first_three(re_findall(Substituted(t)))

\* C6: when the text holds a colon, a full-width colon or a semicolon, the
\* result is that of the text after the last of them, scanned in full;
\* otherwise it is that of the whole text, scanned in full.
C6_LastColonAnchoring ==
    pc = "x_done" =>
        LET colons == {i \in 1..Len(text) : text[i] \in ColonChars}
        IN  IF colons # {}
            THEN coords =
                   ScanInFull(SubSeq(text, SetMax(colons) + 1, Len(text)))
            ELSE coords = ScanInFull(text)

\* a triple was taken after the last of several colons, with a number
\* before it
C6_Witness ==
    /\ pc = "x_done"
    /\ text = <<"8", ":", "9", ";", "3", ",", "4", ",", "5">>
    /\ coords = << <<3, 1>>, <<4, 1>>, <<5, 1>> >>

\* a token of the grammar: optional sign, digits, optional point and digits
IsNumericToken(tok) ==
    LET body == IF tok # <<>> /\ tok[1] \in {"-", "+"} THEN Tail(tok) ELSE tok
        n    == digits_end(body, 1)
    IN  /\ n >= 1
        /\ \/ n = Len(body)
           \/ /\ body[n + 1] = "."
              /\ \A i \in (n + 2)..Len(body) : body[i] \in Digits

\* the first index of the maximal digit run that holds index i
RECURSIVE RunStart(_, _)
RunStart(s, i) ==
    IF i > 1 /\ s[i - 1] \in Digits THEN RunStart(s, i - 1) ELSE i

\* whether the digit run starting at i is the fraction of the token before it
RECURSIVE IsFraction(_, _)
IsFraction(s, i) ==
    /\ i >= 3
    /\ s[i - 1] = "."
    /\ s[i - 2] \in Digits
    /\ ~IsFraction(s, RunStart(s, i - 2))

\* the number of numeric tokens of s, counted on its digit runs
NumericTokenCount(s) ==
    Cardinality({ i \in 1..Len(s) :
                    /\ s[i] \in Digits
                    /\ RunStart(s, i) = i
                    /\ ~IsFraction(s, i) })

\* C7: the scanned text's tokens are numeric tokens; with fewer than 3 of
\* them the result is None, otherwise it is the first three, in order, as
\* floats; "1, 2" gives None and "1,2,3,4" gives (1.0, 2.0, 3.0).
C7_TokenCountRule ==
    pc = "x_done" =>
        LET scanned == colon_suffix(clean_text(text))
            toks    == re_findall(scanned)
        IN  /\ \A k \in 1..Len(toks) : IsNumericToken(toks[k])
            /\ Len(toks) = NumericTokenCount(scanned)
            /\ NumericTokenCount(scanned) < 3 => coords = None
            /\ NumericTokenCount(scanned) >= 3 =>
                 coords = <<float(toks[1]), float(toks[2]), float(toks[3])>>
            /\ text = ExTwoTokens => coords = None
            /\ text = ExNoNumbers => coords = None
            /\ text = ExFourTokens =>
                 coords = << <<1, 1>>, <<2, 1>>, <<3, 1>> >>
            /\ text = ExCanonical =>
                 coords = << <<125, 10>>, <<-3, 1>>, <<100, 1>> >>

\* four tokens were found and the first three returned
C7_Witness ==
    /\ pc = "x_done"
    /\ text = ExFourTokens
    /\ coords = << <<1, 1>>, <<2, 1>>, <<3, 1>> >>

\* C8: the result is that of the text with the substitutions already made
\* (no space, no vertical bar, every colon kind an ASCII colon, I as 1, O as
\* 0); "12;O.5, -3, 1OO" gives (0.5, -3.0, 100.0).
C8_SubstitutionOrdering ==
    pc = "x_done" =>
        /\ coords = first_three(re_findall(colon_suffix(Substituted(text))))
        /\ text = ExConfused =>
             coords = << <<5, 10>>, <<-3, 1>>, <<100, 1>> >>
        /\ text = ExLabelled =>
             coords = << <<125, 10>>, <<-3, 1>>, <<100, 1>> >>

C8_Witness ==
    /\ pc = "x_done"
    /\ text = ExConfused
    /\ coords = << <<5, 10>>, <<-3, 1>>, <<100, 1>> >>

\* C9 as stated: the result equals that of the text without its whitespace.
C9_WhitespaceStripped ==
    pc = "x_done" => coords = extract_coordinates(Without(text, Whitespace))

\* C9 amended: the result equals that of the text without its space
\* characters, and line breaks stay in the cleaned text.
C9_SpacesRemoved ==
    pc = "x_done" =>
        /\ coords = extract_coordinates(Without(text, {" "}))
        /\ " " \notin Range(clean_text(text))
        /\ "\n" \in Range(text) => "\n" \in Range(clean_text(text))

\* a text with spaces and line breaks gave a triple: the spaces joined
\* "3 4 5" into one token, the line break kept "6" and "78" apart
C9_Witness ==
    /\ pc = "x_done"
    /\ text = ExMultiLine
    /\ coords = << <<345, 1>>, <<6, 1>>, <<78, 1>> >>

====
